---------------------------- MODULE Spec2Model ----------------------------
(***************************************************************************)
(* A model of memprof_plotter/plotter.py: the artefact gathering loop      *)
(* (get_artefacts), the aggregation loop of main and the anomaly detector  *)
(* (check_memory_anomaly).                                                 *)
(*                                                                         *)
(* Numbers.  Python floats are modelled as integers: relative times in     *)
(* seconds, memory in whole units.  The factor 1.2 is the rational 12/10   *)
(* and the comparison  peak > 1.2 * (sum / n)  is evaluated exactly, as    *)
(* 10 * peak * n > 12 * sum  (n > 0).                                      *)
(*                                                                         *)
(* Dictionaries are functions; a dictionary's keys are its DOMAIN.         *)
(* A Python list is a sequence.                                            *)
(***************************************************************************)
EXTENDS Integers, Sequences, FiniteSets, TLC

VARIABLES
    \* ---- check_memory_anomaly, called on one identity's mapping
    rss,        \* run id -> list of memory values
    times,      \* run id -> list of relative times
    result,     \* what the call did: no finding, a warning, or an exception
    dpc,        \* "call" before the call, "done" after it, "off" in other specifications
    \* ---- the aggregation loop of main
    todo,       \* the run ids of runs.items() not processed yet, in order
    d_times,    \* key -> (run id -> list of times)
    d_rss,      \* key -> (run id -> list of memory values)
    d_cat,      \* key -> category label
    d_names,    \* key -> display name
    processed,  \* the rows each processed run supplied, in processing order
    warnings,   \* the warnings printed by the reporting loop
    mpc,        \* "aggregate", then "report", then "done"; "off" elsewhere
    \* ---- get_artefacts
    listing,    \* workflow.get_runs(status="success"), as a sequence
    nruns,      \* the -n argument
    filter,     \* the branch filter, a sequence of branch names
    pos,        \* the index of the next run of the listing
    runs,       \* the dictionary being built: run numbers in insertion order
    apc         \* "loop" while iterating, "done" after return, "off" elsewhere

detVars == <<rss, times, result, dpc>>
aggVars == <<todo, d_times, d_rss, d_cat, d_names, processed, warnings, mpc>>
artVars == <<listing, nruns, filter, pos, runs, apc>>
vars == <<detVars, aggVars, artVars>>

-----------------------------------------------------------------------------
(* Bounds of the model. *)

\* run identifiers of the detector's input are 1..MaxRunId
MaxRunId == 3
\* total number of samples in one identity's mapping given to the detector
MaxSamples == 4
\* sample rows one run supplies to the aggregation loop
MaxRows == 2
\* runs in the listing given to get_artefacts
MaxListing == 3
\* largest -n argument
MaxNruns == 2

\* relative times (seconds) around the 60 second gate
Times == {60, 61}
\* memory values: prior peaks 8 and 12 average to 10, and 12 is exactly 1.2 * 10
Mems == {8, 12}

-----------------------------------------------------------------------------
(* Helpers: Python built-ins. *)

EmptyDict == [k \in {} |-> {}]

Range(s) == {s[i] : i \in DOMAIN s}

\* max() of a non-empty collection of numbers
Max(S) == CHOOSE m \in S : \A x \in S : x <= m

RECURSIVE SumOver(_, _)
\* sum([f[k] for k in S])
SumOver(f, S) ==
    IF S = {} THEN 0
    ELSE LET k == CHOOSE x \in S : TRUE
         IN f[k] + SumOver(f, S \ {k})

NonDecreasing(s) == \A i \in DOMAIN s : \A j \in DOMAIN s : i <= j => s[i] <= s[j]

-----------------------------------------------------------------------------
(* check_memory_anomaly *)

\* the duration gate's threshold, seconds
MinRuntime == 60
\* 1.2 as the rational FactorNum / FactorDen
FactorNum == 12
FactorDen == 10

NoFinding == [kind |-> "none"]
Raised(e) == [kind |-> "raised", error |-> e]

\* the early return left out
SingleRunOff(r) == FALSE
\* len(rss) == 1
SingleRun(r) == Cardinality(DOMAIN r) = 1

\* the gate with < for <=, and the gate passing over empty lists
TooShortStrict(tl) == (IF Len(tl) = 0 THEN 0 ELSE Max(Range(tl))) < MinRuntime
TooShortSkipEmpty(tl) == Len(tl) # 0 /\ Max(Range(tl)) <= MinRuntime
\* max(tl or [0.0,]) <= 60.0
TooShort(tl) == (IF Len(tl) = 0 THEN 0 ELSE Max(Range(tl))) <= MinRuntime

\* the comparison with >= for >
ExceedsOrEqual(peak, total, n) == FactorDen * peak * n >= FactorNum * total
\* max_mems[latest_run_no] > 1.2 * avg_mem, avg_mem = total / n
Exceeds(peak, total, n) == FactorDen * peak * n > FactorNum * total

check_memory_anomaly(category, test_name, r, t) ==
    IF SingleRun(r) THEN NoFinding
    ELSE IF \E i \in DOMAIN t : TooShort(t[i]) THEN NoFinding
    ELSE IF \E i \in DOMAIN r : Len(r[i]) = 0 THEN Raised("ValueError")
    ELSE IF DOMAIN r = {} THEN Raised("ValueError")
    ELSE LET max_mems == [i \in DOMAIN r |-> Max(Range(r[i]))]
             latest_run_no == Max(DOMAIN max_mems)
             total == SumOver(max_mems, DOMAIN max_mems \ {latest_run_no})
             n == Cardinality(DOMAIN max_mems) - 1
         IN IF n = 0 THEN Raised("ZeroDivisionError")
            ELSE IF Exceeds(max_mems[latest_run_no], total, n)
                 THEN [kind |-> "warning", category |-> category,
                       test_name |-> test_name, run |-> latest_run_no,
                       peak |-> max_mems[latest_run_no],
                       avg_num |-> total, avg_den |-> n]
                 ELSE NoFinding

-----------------------------------------------------------------------------
(* The detector on every mapping within the bounds. *)

RunIds == 1..MaxRunId
Samples == Times \X Mems

\* the idle values of the variables of the other parts
AggOff ==
    /\ todo = <<>> /\ d_times = EmptyDict /\ d_rss = EmptyDict
    /\ d_cat = EmptyDict /\ d_names = EmptyDict
    /\ processed = <<>> /\ warnings = {} /\ mpc = "off"
ArtOff ==
    /\ listing = <<>> /\ nruns = 0 /\ filter = <<>>
    /\ pos = 1 /\ runs = <<>> /\ apc = "off"
DetOff ==
    /\ rss = EmptyDict /\ times = EmptyDict
    /\ result = NoFinding /\ dpc = "off"

\* number of samples of the runs below r
Offset(len, r) == SumOver(len, {q \in DOMAIN len : q < r})

\* Every mapping run id -> Series with at least one run, the samples of a run
\* in ascending time order (the sample query's ORDER BY), its two lists
\* of equal length.
InitDet ==
    /\ \E D \in SUBSET RunIds \ {{}} :
       \E len \in [D -> 0..MaxSamples] :
          /\ SumOver(len, D) <= MaxSamples
          /\ \E flat \in [1..SumOver(len, D) -> Samples] :
                /\ times = [r \in D |-> [i \in 1..len[r] |-> flat[Offset(len, r) + i][1]]]
                /\ rss = [r \in D |-> [i \in 1..len[r] |-> flat[Offset(len, r) + i][2]]]
                /\ \A r \in D : NonDecreasing(times[r])
    /\ result = NoFinding
    /\ dpc = "call"
    /\ AggOff
    /\ ArtOff

Call ==
    /\ dpc = "call"
    /\ result' = check_memory_anomaly("cat", "cat_cmd", rss, times)
    /\ dpc' = "done"
    /\ UNCHANGED <<rss, times, aggVars, artVars>>

NextDet == Call

SpecDet == InitDet /\ [][NextDet]_vars

-----------------------------------------------------------------------------
(* The aggregation loop of main. *)

\* SQL NULL, Python None; a category that is present is the 1-tuple <<string>>
None == <<>>
Some(str) == <<str>>

\* f"{cat}": str(None) is "None"
Str(cat) == IF cat = None THEN "None" ELSE cat[1]

\* f"{cat}_{cmd}"
Key(cat, cmd) == Str(cat) \o "_" \o cmd

\* cat or "other"
Label(cat) == IF cat = None \/ cat = Some("") THEN "other" ELSE cat[1]

\* d[k] = v
Put(d, k, v) == [x \in DOMAIN d \cup {k} |-> IF x = k THEN v ELSE d[x]]

\* d[k][runid] = v, d a defaultdict(dict)
PutRun(d, k, runid, v) ==
    Put(d, k, Put(IF k \in DOMAIN d THEN d[k] ELSE EmptyDict, runid, v))

\* the body of: for cmd, cat in cur.fetchall()  (get_all_cmds_query)
RegisterJob(st, runid, job) ==
    LET k == Key(job.category, job.command)
    IN [cat   |-> Put(st.cat, k, Label(job.category)),
        times |-> PutRun(st.times, k, runid, <<>>),
        rss   |-> PutRun(st.rss, k, runid, <<>>),
        names |-> Put(st.names, k, job.command)]

\* the body of: for cmd, cat, time, rss in cur.fetchall()  (get_mem_query)
AppendRow(st, runid, row) ==
    LET k == Key(row.category, row.command)
    IN [st EXCEPT !.times = PutRun(st.times, k, runid, Append(st.times[k][runid], row.time)),
                  !.rss   = PutRun(st.rss, k, runid, Append(st.rss[k][runid], row.rss))]

RECURSIVE RegisterAll(_, _, _)
RegisterAll(st, runid, jobs) ==
    IF jobs = <<>> THEN st
    ELSE RegisterAll(RegisterJob(st, runid, Head(jobs)), runid, Tail(jobs))

RECURSIVE AppendAll(_, _, _)
AppendAll(st, runid, rows) ==
    IF rows = <<>> THEN st
    ELSE AppendAll(AppendRow(st, runid, Head(rows)), runid, Tail(rows))

\* the handler with break for continue
BreakOnMissingTable(rest) == <<>>
\* except sqlite3.OperationalError: continue -- the runs still to process
ContinueOnMissingTable(rest) == rest

\* The test identities of the model's databases: a NULL and an empty
\* category with one command, and two pairs whose category or command holds
\* the separator "_".
Idents ==
    { [category |-> None,        command |-> "t"],
      [category |-> Some(""),    command |-> "t"],
      [category |-> Some("a"),   command |-> "b_t"],
      [category |-> Some("a_b"), command |-> "t"] }

\* the jobs table of one database: one or two rows, no pair twice, or none
JobLists ==
    {<<>>} \cup {<<a>> : a \in Idents}
           \cup {<<a, b>> : <<a, b>> \in {p \in Idents \X Idents : p[1] # p[2]}}

\* the (time, memory) values of sample rows
RowSamples == {<<61, 8>>, <<62, 12>>}

SampleRow(job, sample) ==
    [command |-> job.command, category |-> job.category,
     time |-> sample[1], rss |-> sample[2]]

\* The result of get_mem_query on a database with these jobs: every row
\* joins a row of jobs, and the rows come ORDER BY t ASC.
RowLists(jobs) ==
    LET one == {SampleRow(jobs[j], x) : j \in DOMAIN jobs, x \in RowSamples}
    IN UNION { {rows \in [1..n -> one] :
                  \A i \in 1..n : \A j \in 1..n : i <= j => rows[i].time <= rows[j].time}
               : n \in 0..MaxRows }

\* the run numbers main receives from get_artefacts, in the order of the
\* workflow's run listing (newest first)
RunOrders == {<<2, 1>>}

InitAgg ==
    /\ runs \in RunOrders
    /\ todo = runs
    /\ d_times = EmptyDict /\ d_rss = EmptyDict
    /\ d_cat = EmptyDict /\ d_names = EmptyDict
    /\ processed = <<>>
    /\ warnings = {}
    /\ mpc = "aggregate"
    /\ listing = <<>> /\ nruns = 0 /\ filter = <<>> /\ pos = 1 /\ apc = "off"
    /\ DetOff

Aggregated(st) ==
    /\ d_cat' = st.cat
    /\ d_times' = st.times
    /\ d_rss' = st.rss
    /\ d_names' = st.names

Current == [cat |-> d_cat, times |-> d_times, rss |-> d_rss, names |-> d_names]

\* one iteration of  for runid, mpr in runs.items()  on a database that has
\* the memprof table
ProcessRun ==
    /\ mpc = "aggregate"
    /\ todo # <<>>
    /\ \E jobs \in JobLists :
       \E rows \in RowLists(jobs) :
          LET runid == Head(todo)
          IN /\ Aggregated(AppendAll(RegisterAll(Current, runid, jobs), runid, rows))
             /\ processed' = Append(processed,
                   [runid |-> runid, jobs |-> jobs, memprof |-> TRUE, rows |-> rows])
    /\ todo' = Tail(todo)
    /\ UNCHANGED <<warnings, mpc, detVars, artVars>>

\* one iteration on a database without the memprof table: the sample query
\* raises sqlite3.OperationalError
ProcessRunNoTable ==
    /\ mpc = "aggregate"
    /\ todo # <<>>
    /\ \E jobs \in JobLists :
          LET runid == Head(todo)
          IN /\ Aggregated(RegisterAll(Current, runid, jobs))
             /\ processed' = Append(processed,
                   [runid |-> runid, jobs |-> jobs, memprof |-> FALSE, rows |-> <<>>])
    /\ todo' = ContinueOnMissingTable(Tail(todo))
    /\ UNCHANGED <<warnings, mpc, detVars, artVars>>

\* for k, v in d_rss.items(): check_memory_anomaly(d_cat[k], k, v, d_times[k])
Report ==
    /\ mpc = "aggregate"
    /\ todo = <<>>
    /\ warnings' =
          {w \in {check_memory_anomaly(d_cat[k], k, d_rss[k], d_times[k]) : k \in DOMAIN d_rss} :
              w.kind # "none"}
    /\ mpc' = "done"
    /\ UNCHANGED <<todo, d_times, d_rss, d_cat, d_names, processed, detVars, artVars>>

NextAgg == ProcessRun \/ ProcessRunNoTable \/ Report

SpecAgg == InitAgg /\ [][NextAgg]_vars

-----------------------------------------------------------------------------
(* get_artefacts *)

\* the -a argument: the name of the artefact holding the database
ArtefactName == "run-log"
HttpOk == 200

\* download_artefact: the archive, or None (FALSE) when the request fails or
\* the archive holds no tsp_db.sqlite3
download_artefact(gha) ==
    IF gha.status_code # HttpOk THEN FALSE
    ELSE "tsp_db.sqlite3" \in gha.namelist

\* The artefacts a run can have: at most one of them named ArtefactName
\* (artefact names are unique within a run), alone or after another.
Other == [name |-> "coverage", status_code |-> HttpOk, namelist |-> {"index.html"}]
Named ==
    { [name |-> ArtefactName, status_code |-> 404, namelist |-> {}],
      [name |-> ArtefactName, status_code |-> HttpOk, namelist |-> {"log.txt"}],
      [name |-> ArtefactName, status_code |-> HttpOk, namelist |-> {"log.txt", "tsp_db.sqlite3"}] }
ArtefactLists == {<<>>, <<Other>>} \cup {<<a>> : a \in Named} \cup {<<Other, a>> : a \in Named}
Branches == {"main", "dev"}
RunShapes == [head_branch : Branches, artifacts : ArtefactLists]

\* The successful runs of the workflow, newest first: run numbers are
\* unique and descend along the listing.
Listing(shape) ==
    [i \in DOMAIN shape |-> [run_number |-> Len(shape) + 1 - i,
                             head_branch |-> shape[i].head_branch,
                             artifacts |-> shape[i].artifacts]]

InitArt ==
    /\ \E n \in 0..MaxListing : \E shape \in [1..n -> RunShapes] : listing = Listing(shape)
    /\ nruns \in 0..MaxNruns
    /\ filter \in {<<>>, <<"main">>}
    /\ pos = 1
    /\ runs = <<>>
    /\ apc = "loop"
    /\ todo = <<>> /\ d_times = EmptyDict /\ d_rss = EmptyDict
    /\ d_cat = EmptyDict /\ d_names = EmptyDict
    /\ processed = <<>> /\ warnings = {} /\ mpc = "off"
    /\ DetOff

\* for gha in run.get_artifacts(): the first artefact with the wanted name
\* decides (the loop breaks there); 0 when there is none
FirstNamed(artifacts) ==
    IF \E i \in DOMAIN artifacts : artifacts[i].name = ArtefactName
    THEN CHOOSE i \in DOMAIN artifacts :
            /\ artifacts[i].name = ArtefactName
            /\ \A j \in 1..(i - 1) : artifacts[j].name # ArtefactName
    ELSE 0

\* runs[run.run_number] = mpr, on a dictionary kept as its keys in insertion order
SetKey(keys, k) == IF k \in Range(keys) THEN keys ELSE Append(keys, k)

\* if len(runs) == nruns: break
Enough(keys, n) == Len(keys) = n

\* one iteration of  for run in workflow.get_runs(status="success")
NextRun ==
    /\ apc = "loop"
    /\ pos <= Len(listing)
    /\ LET run == listing[pos]
           i == FirstNamed(run.artifacts)
           kept == IF i # 0 /\ download_artefact(run.artifacts[i])
                   THEN SetKey(runs, run.run_number)
                   ELSE runs
       IN IF filter # <<>> /\ run.head_branch \notin Range(filter)
          THEN /\ pos' = pos + 1
               /\ UNCHANGED <<runs, apc>>
          ELSE /\ runs' = kept
               /\ IF Enough(kept, nruns)
                  THEN apc' = "done" /\ pos' = pos
                  ELSE apc' = "loop" /\ pos' = pos + 1
    /\ UNCHANGED <<listing, nruns, filter, aggVars, detVars>>

\* the listing is exhausted: return runs
Return ==
    /\ apc = "loop"
    /\ pos > Len(listing)
    /\ apc' = "done"
    /\ UNCHANGED <<listing, nruns, filter, pos, runs, aggVars, detVars>>

NextArt == NextRun \/ Return

SpecArt == InitArt /\ [][NextArt]_vars

-----------------------------------------------------------------------------
(* Claims about get_artefacts, checked under SpecArt. *)

\* a run qualifies: it passes the branch filter and has an artefact of the
\* wanted name that downloads and holds the database
Qualifies(run) ==
    /\ filter = <<>> \/ \E i \in DOMAIN filter : filter[i] = run.head_branch
    /\ \E i \in DOMAIN run.artifacts :
          /\ run.artifacts[i].name = "run-log"
          /\ run.artifacts[i].status_code = 200
          /\ "tsp_db.sqlite3" \in run.artifacts[i].namelist
QualifyingRuns == SelectSeq(listing, Qualifies)
Least(a, b) == IF a <= b THEN a ELSE b

\* C9: get_artefacts returns exactly the first min(nruns, number of
\* qualifying runs) qualifying runs, in listing order, for every nruns >= 0.
C9_FirstNQualifying ==
    apc = "done" =>
        LET want == SubSeq(QualifyingRuns, 1, Least(nruns, Len(QualifyingRuns)))
        IN runs = [i \in DOMAIN want |-> want[i].run_number]

-----------------------------------------------------------------------------
(* Claims about the aggregation loop, checked under SpecAgg. *)

\* the test-listing rows of the runs processed so far
DeclaredJobs == UNION {Range(processed[i].jobs) : i \in DOMAIN processed}
\* the AggregatedSeries a row is filed under
SeriesOf(row) == Key(row.category, row.command)
\* a run's sample rows that carry the (category, command) pair of job, in arrival order
RowsOfPair(p, job) ==
    SelectSeq(p.rows, LAMBDA row : row.category = job.category /\ row.command = job.command)
\* a run's sample rows filed under key k, in arrival order
RowsOfKey(p, k) == SelectSeq(p.rows, LAMBDA row : SeriesOf(row) = k)
TimesOf(rows) == [i \in DOMAIN rows |-> rows[i].time]
MemsOf(rows) == [i \in DOMAIN rows |-> rows[i].rss]
HasEntry(k, runid) ==
    /\ k \in DOMAIN d_times /\ runid \in DOMAIN d_times[k]
    /\ k \in DOMAIN d_rss /\ runid \in DOMAIN d_rss[k]
AbsentOrEmpty(cat) == cat = None \/ cat = Some("")

\* C4: for every processed run and every identity its listing declares, the
\* mapping has an entry for (identity, run), and the entry is the empty Series
\* when the run supplied no sample row for that identity.
C4_DeclaredIdentityHasEntry ==
    \A i \in DOMAIN processed : \A j \in DOMAIN processed[i].jobs :
        LET p == processed[i]
            job == p.jobs[j]
        IN /\ HasEntry(SeriesOf(job), p.runid)
           /\ RowsOfPair(p, job) = <<>> =>
                 /\ d_times[SeriesOf(job)][p.runid] = <<>>
                 /\ d_rss[SeriesOf(job)][p.runid] = <<>>

\* C5: a run whose sample query fails for the missing table leaves an empty
\* Series for every identity it declares, leaves every other run's Series
\* what that run's own rows made it, and does not stop the loop: the runs
\* processed so far and the runs still to process are together all the runs.
C5_MissingTableKeepsGoing ==
    \A i \in DOMAIN processed :
        ~processed[i].memprof =>
            /\ \A j \in DOMAIN processed[i].jobs :
                  LET k == SeriesOf(processed[i].jobs[j])
                  IN /\ HasEntry(k, processed[i].runid)
                     /\ d_times[k][processed[i].runid] = <<>>
                     /\ d_rss[k][processed[i].runid] = <<>>
            /\ \A q \in DOMAIN processed \ {i} : \A j \in DOMAIN processed[q].jobs :
                  LET k == SeriesOf(processed[q].jobs[j])
                  IN /\ HasEntry(k, processed[q].runid)
                     /\ d_times[k][processed[q].runid] = TimesOf(RowsOfKey(processed[q], k))
                     /\ d_rss[k][processed[q].runid] = MemsOf(RowsOfKey(processed[q], k))
            /\ [i2 \in DOMAIN processed |-> processed[i2].runid] \o todo = runs

\* the first run had no memprof table, the second run had one and supplied
\* samples for an identity the first run declared too
C5_Witness ==
    /\ Len(processed) = 2 /\ todo = <<>>
    /\ ~processed[1].memprof /\ processed[2].memprof
    /\ \E j \in DOMAIN processed[1].jobs :
          LET k == SeriesOf(processed[1].jobs[j])
          IN /\ d_rss[k][processed[1].runid] = <<>>
             /\ processed[2].runid \in DOMAIN d_rss[k]
             /\ Len(d_rss[k][processed[2].runid]) = 2

\* C6: for every (run, identity) the Series is exactly the run's sample rows
\* carrying that identity, in arrival order, its two lists of equal length,
\* and so non-decreasing in time.
C6_SeriesIsRowsOfIdentity ==
    \A i \in DOMAIN processed : \A j \in DOMAIN processed[i].jobs :
        LET p == processed[i]
            job == p.jobs[j]
        IN /\ HasEntry(SeriesOf(job), p.runid)
           /\ d_times[SeriesOf(job)][p.runid] = TimesOf(RowsOfPair(p, job))
           /\ d_rss[SeriesOf(job)][p.runid] = MemsOf(RowsOfPair(p, job))
           /\ Len(d_times[SeriesOf(job)][p.runid]) = Len(d_rss[SeriesOf(job)][p.runid])
           /\ NonDecreasing(d_times[SeriesOf(job)][p.runid])

\* C7: the rows with an empty or absent category and one command form one
\* identity, labelled "other"; no identity is labelled with an empty category.
C7_AbsentCategoryIsOther ==
    /\ \A a \in DeclaredJobs : \A b \in DeclaredJobs :
          (AbsentOrEmpty(a.category) /\ AbsentOrEmpty(b.category) /\ a.command = b.command)
             => SeriesOf(a) = SeriesOf(b)
    /\ \A a \in DeclaredJobs : AbsentOrEmpty(a.category) => d_cat[SeriesOf(a)] = "other"
    /\ \A k \in DOMAIN d_cat : d_cat[k] # ""

\* C10: rows are aggregated into the same AggregatedSeries if and only if
\* their (category, command) pairs are equal: there are as many
\* AggregatedSeries as distinct pairs, and pairs that differ share none.
C10_OneSeriesPerPair ==
    /\ Cardinality(DOMAIN d_rss) = Cardinality(DeclaredJobs)
    /\ \A a \in DeclaredJobs : \A b \in DeclaredJobs :
          SeriesOf(a) = SeriesOf(b) <=> a = b

-----------------------------------------------------------------------------
(* Claims about check_memory_anomaly, checked under SpecDet. *)

\* the runs whose Series holds at least one sample
RunsWithData == {r \in DOMAIN rss : Len(rss[r]) > 0}
\* a run's Series lasts longer than the gate's 60 seconds
LongEnough(r) == \E i \in DOMAIN times[r] : times[r][i] > 60
\* the eligibility gate: two or more runs, every one of them long enough
Eligible == Cardinality(DOMAIN rss) >= 2 /\ \A r \in DOMAIN times : LongEnough(r)
\* the greatest run identifier of the mapping
LatestRun == CHOOSE r \in DOMAIN rss : \A q \in DOMAIN rss : q <= r
PriorRuns == DOMAIN rss \ {LatestRun}
\* the greatest memory value of a run's non-empty Series
PeakOf(r) == CHOOSE m \in Range(rss[r]) : \A i \in DOMAIN rss[r] : rss[r][i] <= m
PriorPeaks == [r \in PriorRuns |-> PeakOf(r)]
\* peak(latest) compared with 1.2 * avg_prior, both sides multiplied by
\* 10 * (number of prior runs)
LatestAboveThreshold ==
    10 * PeakOf(LatestRun) * Cardinality(PriorRuns) > 12 * SumOver(PriorPeaks, PriorRuns)
LatestAtThreshold ==
    10 * PeakOf(LatestRun) * Cardinality(PriorRuns) = 12 * SumOver(PriorPeaks, PriorRuns)

\* C1: for a mapping that passes the eligibility gate, the call emits a
\* finding if and only if peak(latest) > 1.2 * avg_prior (strictly), and the
\* finding names the latest run, its peak and the average of the prior peaks.
C1_FindingIffAboveThreshold ==
    (dpc = "done" /\ Eligible) =>
        /\ result.kind = "warning" <=> LatestAboveThreshold
        /\ result.kind = "warning" =>
              /\ result.run = LatestRun
              /\ result.peak = PeakOf(LatestRun)
              /\ result.avg_num = SumOver(PriorPeaks, PriorRuns)
              /\ result.avg_den = Cardinality(PriorRuns)

\* three eligible runs, one of them with two samples, the latest peak exactly
\* 1.2 times the average of the two prior peaks: no finding
C1_Witness ==
    /\ dpc = "done" /\ Eligible
    /\ Cardinality(DOMAIN rss) = 3
    /\ \E r \in DOMAIN rss : Len(rss[r]) = 2
    /\ LatestAtThreshold
    /\ result.kind = "none"

\* C2: when some run's Series has maximum relative_time <= 60 (an empty
\* Series counting as 0), the call emits no finding, whatever the memory values.
C2_ShortRunNoFinding ==
    (dpc = "done" /\ \E r \in DOMAIN times : ~LongEnough(r)) => result.kind # "warning"

\* three runs with data, one of them lasting exactly 60 seconds, the latest
\* peak above 1.2 times the prior average: still no finding
C2_Witness ==
    /\ dpc = "done"
    /\ Cardinality(DOMAIN rss) = 3
    /\ RunsWithData = DOMAIN rss
    /\ \E r \in DOMAIN times : ~LongEnough(r) /\ 60 \in Range(times[r])
    /\ \E r \in DOMAIN times : LongEnough(r)
    /\ LatestAboveThreshold
    /\ result.kind = "none"

\* C3: when fewer than two runs have a non-empty Series, the call returns
\* without a finding.
C3_NoHistoryNoFinding ==
    (dpc = "done" /\ Cardinality(RunsWithData) < 2) => result.kind = "none"

\* exactly one run, with data, long enough and with the highest memory value
C3_Witness ==
    /\ dpc = "done"
    /\ Cardinality(DOMAIN rss) = 1
    /\ \A r \in DOMAIN rss : LongEnough(r) /\ 12 \in Range(rss[r])
    /\ result.kind = "none"

\* C8: on every mapping with at least one run (Series possibly empty, time
\* and memory lists of equal length) the call completes without raising, with
\* no finding or one finding.
C8_NeverRaises ==
    dpc = "done" => result.kind \in {"none", "warning"}

\* two long runs with data and a third run whose Series is empty
C8_Witness ==
    /\ dpc = "done"
    /\ Cardinality(DOMAIN rss) = 3
    /\ Cardinality(RunsWithData) = 2
    /\ \A r \in RunsWithData : LongEnough(r)
    /\ result.kind = "none"

=============================================================================
